---------------------------- MODULE Spec2Model ----------------------------
(***************************************************************************)
(* Model of datasets/gedi_rasterize_l2b.py: the monthly rasterization of   *)
(* GEDI L2B shot tables (rasterize_gedi_by_utm_zone, create_export,        *)
(* _start_task and the helpers they use).                                  *)
(*                                                                         *)
(* A datetime is a record [year, month, day, hour, minute, second]; every  *)
(* datetime of the model is UTC-aware (parse_date_from_gedi_filename       *)
(* localizes to UTC, and grill_month is compared with those values).       *)
(* A table asset id is a record [dir, segs]: segs is the basename split at *)
(* '_'; a segment is the sequence of its characters, a digit being the     *)
(* number 0..9 and a letter a number from 10 up ('A' is 10).               *)
(***************************************************************************)
EXTENDS Integers, Sequences, FiniteSets, TLC

(***************************************************************************)
(* Bounds of the model.                                                    *)
(***************************************************************************)
\* longest manifest (list of table asset ids) tried by the month gate
MaxBatches == 20
\* longest of the shorter of the two runs of a manifest
MaxMinor == 2
\* most shot records held by the tables of one manifest
MaxShots == 2

(***************************************************************************)
(* Calendar arithmetic (datetime, dateutil.relativedelta).                 *)
(***************************************************************************)
IsLeap(y) == (y % 4 = 0) /\ ((y % 100 # 0) \/ (y % 400 = 0))

DaysInMonth(y, m) ==
  IF m = 2 THEN (IF IsLeap(y) THEN 29 ELSE 28)
  ELSE IF m \in {4, 6, 9, 11} THEN 30 ELSE 31

RECURSIVE DaysBeforeMonth(_, _)
DaysBeforeMonth(y, m) ==
  IF m = 1 THEN 0 ELSE DaysBeforeMonth(y, m - 1) + DaysInMonth(y, m - 1)

DaysBeforeYear(y) ==
  365 * (y - 1) + ((y - 1) \div 4) - ((y - 1) \div 100) + ((y - 1) \div 400)

\* datetime.toordinal(): 1 for 0001-01-01
ToOrdinal(y, m, d) == DaysBeforeYear(y) + DaysBeforeMonth(y, m) + d

SecondOfDay(dt) == dt.hour * 3600 + dt.minute * 60 + dt.second

DateTime(y, m, d, hh, mm, ss) ==
  [year |-> y, month |-> m, day |-> d, hour |-> hh, minute |-> mm, second |-> ss]

\* dt1 < dt2 on aware UTC datetimes
DtLess(a, b) ==
  LET ka == <<a.year, a.month, a.day, SecondOfDay(a)>>
      kb == <<b.year, b.month, b.day, SecondOfDay(b)>>
  IN \E i \in 1..4 : ka[i] < kb[i] /\ \A k \in 1..(i - 1) : ka[k] = kb[k]

\* dt1 >= dt2
DtGeq(a, b) == ~DtLess(a, b)

\* datetime.replace(day=1): every other field, the time of day included, is kept
ReplaceDay1(dt) == [dt EXCEPT !.day = 1]

Min2(a, b) == IF a < b THEN a ELSE b

\* dt + relativedelta(months=1): month + 1 with the year carried, the day
\* clipped to the length of the new month, the time of day kept
AddOneMonthNoCarry(dt) ==
  LET m == IF dt.month = 12 THEN 1 ELSE dt.month + 1
  IN [dt EXCEPT !.month = m, !.day = Min2(dt.day, DaysInMonth(dt.year, m))]

AddOneMonth(dt) ==
  LET y == IF dt.month = 12 THEN dt.year + 1 ELSE dt.year
      m == IF dt.month = 12 THEN 1 ELSE dt.month + 1
  IN [dt EXCEPT !.year = y, !.month = m, !.day = Min2(dt.day, DaysInMonth(y, m))]

\* date.fromordinal((julian - 1) + date(year, 1, 1).toordinal()), as
\* _strptime does for %j: day 366 of a common year is January 1 of the next
RECURSIVE MonthOfDoy(_, _, _)
MonthOfDoy(y, m, j) ==
  IF j <= DaysInMonth(y, m) THEN <<m, j>> ELSE MonthOfDoy(y, m + 1, j - DaysInMonth(y, m))

DateOfDoy(y, j) ==
  LET len == IF IsLeap(y) THEN 366 ELSE 365
  IN IF j <= len THEN <<y>> \o MonthOfDoy(y, 1, j)
     ELSE <<y + 1>> \o MonthOfDoy(y + 1, 1, j - len)


(***************************************************************************)
(* Temporal parser (lines 85-97).                                          *)
(***************************************************************************)
None == "None"

IsDigits(seg) == \A i \in 1..Len(seg) : seg[i] \in 0..9

RECURSIVE NumOf(_)
NumOf(ds) == IF ds = <<>> THEN 0 ELSE 10 * NumOf(SubSeq(ds, 1, Len(ds) - 1)) + ds[Len(ds)]

\* datetime.strptime(token, '%Y%j%H%M%S') on a token of digits: the fields
\* are 4, 3, 2, 2 and 2 digits wide; any other token raises ValueError
strptime(token) ==
  IF ~IsDigits(token) \/ Len(token) # 13
  THEN [err |-> "ValueError", dt |-> None]
  ELSE LET y  == NumOf(SubSeq(token, 1, 4))
           j  == NumOf(SubSeq(token, 5, 7))
           hh == NumOf(SubSeq(token, 8, 9))
           mm == NumOf(SubSeq(token, 10, 11))
           ss == NumOf(SubSeq(token, 12, 13))
       IN IF y >= 1 /\ j \in 1..366 /\ hh \in 0..23 /\ mm \in 0..59 /\ ss \in 0..59
          THEN LET d == DateOfDoy(y, j)
               IN [err |-> "none", dt |-> DateTime(d[1], d[2], d[3], hh, mm, ss)]
          ELSE [err |-> "ValueError", dt |-> None]

\* os.path.basename(table_asset_id).split('_')[2], parsed and localized to UTC
parse_date_from_gedi_filename(table_asset_id) ==
  IF Len(table_asset_id.segs) < 3
  THEN [err |-> "IndexError", dt |-> None]
  ELSE strptime(table_asset_id.segs[3])

\* dt.timestamp() of an aware UTC datetime: seconds since 1970-01-01T00:00Z
PosixTimestamp(dt) ==
  (ToOrdinal(dt.year, dt.month, dt.day) - ToOrdinal(1970, 1, 1)) * 86400 + SecondOfDay(dt)

\* seconds between 2018-01-01 and dt, the scale of the 'delta_time' property
gedi_deltatime_epoch(dt) ==
  PosixTimestamp(dt) - (ToOrdinal(2018, 1, 1) - ToOrdinal(1970, 1, 1)) * 86400

\* time.mktime(dt.timetuple()) * 1000: the fields of dt read as local time of
\* the host, whose offset from UTC is utcoffset seconds.  The value is
\* seconds * 1000 + millis, kept as the pair (the product does not fit a
\* 32-bit integer).
timestamp_ms_for_datetime(dt, utcoffset) ==
  [seconds |-> PosixTimestamp(dt) - utcoffset, millis |-> 0]

(***************************************************************************)
(* Month gate of create_export (lines 136-159).                            *)
(***************************************************************************)
ErrNoIds == "No table asset ids specified"
ErrAllOutside == "ALL the table files are outside of the expected month"
ErrMajority == "The majority of table ids are not in the requested month"

\* line 136: `if not table_asset_ids`
EmptyCheckMissing(table_asset_ids) == FALSE

EmptyCheck(table_asset_ids) == table_asset_ids = <<>>

\* line 147: all((date < month_start or date >= month_end) for date in dts)
AllOutsideOnlyBefore(dts, month_start, month_end) ==
  \A i \in 1..Len(dts) : DtLess(dts[i], month_start)

AllOutside(dts, month_start, month_end) ==
  \A i \in 1..Len(dts) : DtLess(dts[i], month_start) \/ DtGeq(dts[i], month_end)

\* lines 152-155: the dates inside [month_start, month_end), in list order
RightMonth(dts, month_start, month_end) ==
  LET Keep(d) == DtGeq(d, month_start) /\ DtLess(d, month_end)
  IN SelectSeq(dts, Keep)

\* line 156: len(right_month_dts) / len(table_asset_dts) < 0.95.  The float
\* quotient k / n is below the float 0.95 exactly when 20 k < 19 n (the two
\* differ by far more than one rounding step for every list length in reach).
CoverageBelowOrAt(k, n) == 20 * k <= 19 * n

CoverageBelowHalf(k, n) == 2 * k < n

CoverageBelow(k, n) == 20 * k < 19 * n

\* lines 144-146
MonthStart(grill_month) == ReplaceDay1(grill_month)

MonthEnd(month_start) == AddOneMonth(month_start)

\* lines 138-141: the loop over the identifiers, until one fails to parse
RECURSIVE ParseAll(_, _)
ParseAll(table_asset_ids, i) ==
  IF i > Len(table_asset_ids) THEN <<>>
  ELSE LET r == parse_date_from_gedi_filename(table_asset_ids[i])
       IN IF r.err # "none" THEN <<r>>
          ELSE <<r>> \o ParseAll(table_asset_ids, i + 1)

\* lines 144-159 on the parsed dates
WindowChecks(table_asset_dts, month_start, month_end) ==
  IF AllOutside(table_asset_dts, month_start, month_end)
  THEN ErrAllOutside
  ELSE IF CoverageBelow(Len(RightMonth(table_asset_dts, month_start, month_end)),
                        Len(table_asset_dts))
       THEN ErrMajority
       ELSE "none"

GateOnParsed(parsed, month_start, month_end) ==
  IF parsed # <<>> /\ parsed[Len(parsed)].err # "none"
  THEN [error |-> parsed[Len(parsed)].err, n_parsed |-> Len(parsed), window |-> <<>>]
  ELSE [error |-> WindowChecks([i \in 1..Len(parsed) |-> parsed[i].dt],
                               month_start, month_end),
        n_parsed |-> Len(parsed),
        window |-> <<month_start, month_end>>]

\* The outcome of lines 136-159: the error raised ("none" when the gate is
\* passed), how many identifiers were parsed, and the window
\* <<month_start, month_end>> (<<>> while it is not computed).
MonthGate(table_asset_ids, grill_month) ==
  IF EmptyCheck(table_asset_ids)
  THEN [error |-> ErrNoIds, n_parsed |-> 0, window |-> <<>>]
  ELSE GateOnParsed(ParseAll(table_asset_ids, 1),
                    MonthStart(grill_month), MonthEnd(MonthStart(grill_month)))

(***************************************************************************)
(* Band schema (lines 51-82, 161-175, 213).                                *)
(***************************************************************************)
INTEGER_PROPS == {
  "algorithmrun_flag", "algorithmrun_flag_aN", "channel", "degrade_flag",
  "l2a_quality_flag", "l2b_quality_flag", "landsat_water_persistencoe",
  "leaf_off_flag", "leaf_on_cycle", "master_int", "num_detectedmodes",
  "pft_class", "region_class", "rg_eg_constraint_center_buffer",
  "rg_eg_flag_aN", "rg_eg_niter_aN", "selected_l2a_algorithm",
  "selected_mode", "selected_mode_flag", "selected_rg_algorithm",
  "stale_return_flag", "surface_flag", "urban_focal_window_size",
  "urban_proportion", "minor_frame_number", "orbit_number",
  "shot_number_within_beam" }

\* range(30) of get_raster_bands
NumLevels == 30

\* [band + str(count) for count in range(30)]
get_raster_bands(band) == [c \in 1..NumLevels |-> band \o ToString(c - 1)]

raster_bands ==
  <<"algorithmrun_flag", "beam", "cover">> \o get_raster_bands("cover_z") \o
  <<"degrade_flag", "delta_time", "fhd_normal", "l2b_quality_flag",
    "local_beam_azimuth", "local_beam_elevation", "pai">> \o
  get_raster_bands("pai_z") \o get_raster_bands("pavd_z") \o
  <<"pgap_theta", "selected_l2a_algorithm", "selected_rg_algorithm",
    "sensitivity", "solar_azimuth", "solar_elevation",
    "minor_frame_number", "orbit_number", "shot_number_within_beam">>

\* [p for p in raster_bands if p in INTEGER_PROPS]
int_bands ==
  LET IsInt(p) == p \in INTEGER_PROPS
  IN SelectSeq(raster_bands, IsInt)

(***************************************************************************)
(* The operations create_export asks of the engine (ee), each modelled by  *)
(* what the call made at the given line does.  A shot record is            *)
(* [x, y, delta_time, sensitivity] (sensitivity in tenths); a box is       *)
(* [xmin, xmax, ymin, ymax]; a pixel is <<column, row>> of the 25 m grid.  *)
(***************************************************************************)
\* line 181: geometry().buffer(2500, 25).bounds(): the bounding box of the
\* geometry grown by `distance` on every side
BufferDistance == 2500

Scale == 25

BufferBounds(geometry, distance) ==
  [xmin |-> geometry.xmin - distance, xmax |-> geometry.xmax + distance,
   ymin |-> geometry.ymin - distance, ymax |-> geometry.ymax + distance]

InBox(rec, box) ==
  /\ box.xmin <= rec.x /\ rec.x <= box.xmax
  /\ box.ymin <= rec.y /\ rec.y <= box.ymax

\* line 185: ee.FeatureCollection(shots).flatten(): the records of the
\* collections, one collection after the other
RECURSIVE Flatten(_)
Flatten(collections) ==
  IF collections = <<>> THEN <<>>
  ELSE Head(collections) \o Flatten(Tail(collections))

\* line 185: filterBounds(box)
filterBounds(fc, box) ==
  LET Keep(rec) == InBox(rec, box)
  IN SelectSeq(fc, Keep)

\* lines 186-189: ee.Filter.rangeContains(field, minValue, maxValue) passes
\* a value inside the range, both ends included
rangeContains(value, minValue, maxValue) == minValue <= value /\ value <= maxValue

filterDeltaTime(fc, minValue, maxValue) ==
  LET Keep(rec) == rangeContains(rec.delta_time, minValue, maxValue)
  IN SelectSeq(fc, Keep)

\* lines 194, 208: sort('sensitivity', False); the second argument is
\* `ascending`
SortAscendingFlipped == TRUE

SortAscending == FALSE

InOrder(a, b, ascending) == IF ascending THEN a <= b ELSE a >= b

IndexPermutations(n) ==
  {f \in [1..n -> 1..n] : \A i, k \in 1..n : i # k => f[i] # f[k]}

\* every outcome the sort may give: the order among records of equal
\* sensitivity is not fixed by the engine
SortOutcomes(fc, ascending) ==
  {[i \in 1..Len(fc) |-> fc[f[i]]] : f \in
     {g \in IndexPermutations(Len(fc)) :
        \A i \in 1..(Len(fc) - 1) :
           InOrder(fc[g[i]].sensitivity, fc[g[i + 1]].sensitivity, ascending)}}

\* the property of a record that a band rasterizes
Property(rec, band) ==
  IF band = "sensitivity" THEN rec.sensitivity
  ELSE IF band = "delta_time" THEN rec.delta_time
  ELSE rec.x

\* reproject(crs, None, 25): the pixel a record falls in
PixelOf(rec, scale) == <<rec.x \div scale, rec.y \div scale>>

\* ee.Reducer.first(): the first input it is given
FirstAt(fc, pixel, scale) ==
  fc[CHOOSE i \in 1..Len(fc) :
       /\ PixelOf(fc[i], scale) = pixel
       /\ \A k \in 1..(i - 1) : PixelOf(fc[k], scale) # pixel]

\* lines 208-211: reduceToImage(raster_bands, Reducer.first().forEach(...))
\* .reproject(crs, None, 25).set(image_properties)
reduceToImage(fc, bands, crs, scale, properties) ==
  LET pixels == {PixelOf(fc[i], scale) : i \in 1..Len(fc)}
  IN [bands |-> [i \in 1..Len(bands) |-> [name |-> bands[i], type |-> "float"]],
      data |-> [p \in pixels |->
                  [i \in 1..Len(bands) |-> Property(FirstAt(fc, p, scale), bands[i])]],
      crs |-> crs, scale |-> scale, properties |-> properties, clip |-> <<>>]

BandIndex(image, name) ==
  IF \E i \in 1..Len(image.bands) : image.bands[i].name = name
  THEN CHOOSE i \in 1..Len(image.bands) : image.bands[i].name = name
  ELSE 0

Cast(image, type) ==
  [image EXCEPT !.bands = [i \in 1..Len(image.bands) |->
                             [name |-> image.bands[i].name, type |-> type]]]

\* line 215: image.toDouble()
toDouble(image) == Cast(image, "double")

\* line 216: .toInt()
toInt(image) == Cast(image, "int")

\* line 216: image.select(int_bands): the named bands, in the order named
select(image, names) ==
  [image EXCEPT
     !.bands = [i \in 1..Len(names) |-> image.bands[BandIndex(image, names[i])]],
     !.data = [p \in DOMAIN image.data |->
                 [i \in 1..Len(names) |-> image.data[p][BandIndex(image, names[i])]]]]

\* lines 215-216: dst.addBands(src, overwrite=...): with overwrite a band of
\* src takes the place of the band of dst with its name; a band of src that
\* is new to dst, and every band of src when overwrite is off, is appended
\* (renamed with a suffix when the name is taken)
RECURSIVE addBandsFrom(_, _, _, _)
addBandsFrom(dst, src, k, overwrite) ==
  IF k > Len(src.bands) THEN dst
  ELSE
    LET b == src.bands[k]
        at == BandIndex(dst, b.name)
        Val(p) == IF p \in DOMAIN src.data THEN src.data[p][k] ELSE None
        next ==
          IF at # 0 /\ overwrite
          THEN [dst EXCEPT
                  !.bands[at] = b,
                  !.data = [p \in DOMAIN dst.data |->
                              [dst.data[p] EXCEPT ![at] = Val(p)]]]
          ELSE [dst EXCEPT
                  !.bands = Append(dst.bands,
                              IF at = 0 THEN b
                              ELSE [name |-> b.name \o "_1", type |-> b.type]),
                  !.data = [p \in DOMAIN dst.data |-> Append(dst.data[p], Val(p))]]
    IN addBandsFrom(next, src, k + 1, overwrite)

addBands(dst, src, overwrite) == addBandsFrom(dst, src, 1, overwrite)

\* line 216: overwrite=True
AddBandsOverwriteOff == FALSE

AddBandsOverwrite == TRUE

\* line 220: clip(box): the pixels that meet the box
clip(image, box) ==
  LET Meets(p) ==
        /\ p[1] * image.scale <= box.xmax /\ (p[1] + 1) * image.scale > box.xmin
        /\ p[2] * image.scale <= box.ymax /\ (p[2] + 1) * image.scale > box.ymin
      kept == {p \in DOMAIN image.data : Meets(p)}
  IN [image EXCEPT !.data = [p \in kept |-> image.data[p]], !.clip = <<box>>]

(***************************************************************************)
(* create_export past the gate (lines 161-224).                            *)
(***************************************************************************)
RepeatCall(name, n) == [i \in 1..n |-> name]

\* the engine calls of lines 177-220, in the order Python evaluates them
EngineCalls(n_ids) ==
  RepeatCall("ee.FeatureCollection", n_ids) \o
  <<"geometry", "buffer", "bounds",
    "ee.FeatureCollection", "flatten", "filterBounds",
    "ee.Filter.rangeContains", "filter", "sort",
    "get", "getInfo",
    "sort", "ee.Reducer.first", "forEach", "reduceToImage", "reproject", "set",
    "toDouble", "select", "toInt", "addBands", "clip">>

\* lines 177-179, 185: the records of the tables of the manifest
UnionOfTables(table_asset_ids, tables) ==
  Flatten([i \in 1..Len(table_asset_ids) |-> tables[table_asset_ids[i]]])

\* lines 186-189: the range handed to ee.Filter.rangeContains
DeltaTimeRange(month_start, month_end) ==
  <<gedi_deltatime_epoch(month_start), gedi_deltatime_epoch(month_end)>>

\* lines 177-190: the records of the tables, inside the box and the range
FilteredShots(table_asset_ids, tables, box, range) ==
  filterDeltaTime(filterBounds(UnionOfTables(table_asset_ids, tables), box),
                  range[1], range[2])

\* lines 198-205
ImageProperties(table_asset_ids, grill_month, month_start, month_end, utcoffset) ==
  [month |-> grill_month.month,
   year |-> grill_month.year,
   version |-> 1,
   time_start |-> timestamp_ms_for_datetime(month_start, utcoffset),
   time_end |-> timestamp_ms_for_datetime(month_end, utcoffset),
   table_asset_ids |-> table_asset_ids]

\* lines 207-224, given the outcome of the sort of line 208
ExportParameters(sorted, raster_asset_id, grid_cell_feature, box, properties, overwrite) ==
  LET image == reduceToImage(sorted, raster_bands, grid_cell_feature.crs,
                             Scale, properties)
      image_with_types ==
        addBands(toDouble(image), toInt(select(image, int_bands)), AddBandsOverwrite)
  IN [asset_id |-> raster_asset_id,
      image |-> clip(image_with_types, box),
      pyramiding_policy |-> ".default:sample",
      crs |-> grid_cell_feature.crs,
      region |-> box,
      overwrite |-> overwrite]

(***************************************************************************)
(* Inputs.                                                                 *)
(***************************************************************************)
\* "GEDI02" and "B" as characters ('A' is 10)
SegGEDI02 == <<16, 14, 13, 18, 0, 2>>
SegB == <<11>>
SegTail == <<0, 2>>

TableId(token) ==
  [dir |-> "LARSE/GEDI/GEDI02_B_002", segs |-> <<SegGEDI02, SegB, token, SegTail>>]

IdDec31 == TableId(<<2, 0, 1, 9, 3, 6, 5, 2, 3, 5, 9, 5, 9>>)
IdJan1 == TableId(<<2, 0, 2, 0, 0, 0, 1, 0, 0, 0, 0, 0, 0>>)
IdJan15 == TableId(<<2, 0, 2, 0, 0, 1, 5, 1, 3, 4, 5, 1, 0>>)
IdFeb1 == TableId(<<2, 0, 2, 0, 0, 3, 2, 0, 0, 0, 0, 0, 0>>)
\* day 367: strptime raises
IdBadDay == TableId(<<2, 0, 2, 0, 3, 6, 7, 0, 0, 0, 0, 0, 0>>)
\* no third segment
IdShort == [dir |-> "LARSE/GEDI/GEDI02_B_002", segs |-> <<SegGEDI02, SegB>>]

AssetIds == {IdDec31, IdJan1, IdJan15, IdFeb1, IdBadDay, IdShort}

Repeat(id, n) == [i \in 1..n |-> id]

\* a run of one identifier followed by a run of another, one of the two
\* runs no longer than minor
Manifests(max, minor) ==
  {Repeat(a, n) \o Repeat(b, m) :
     <<a, b, n, m>> \in {t \in AssetIds \X AssetIds \X (0..max) \X (0..max) :
                           /\ t[3] + t[4] <= max
                           /\ t[3] <= minor \/ t[4] <= minor}}

Midnight == <<0, 0, 0>>
Afternoon == <<13, 45, 10>>

GateMonths ==
  {DateTime(2019, 12, 1, 0, 0, 0), DateTime(2020, 1, 15, 0, 0, 0),
   DateTime(2020, 1, 15, 13, 45, 10)}

AllMonths ==
  {DateTime(y, m, d, t[1], t[2], t[3]) :
     <<y, m, d, t>> \in {u \in {2019, 2020} \X (1..12) \X {1, 15, 28, 29, 30, 31}
                                \X {Midnight, Afternoon} :
                           u[3] <= DaysInMonth(u[1], u[2])}}

\* the grid cell: its geometry and the 'crs' property
grid_cell_feature ==
  [geometry |-> [xmin |-> 0, xmax |-> 100, ymin |-> 0, ymax |-> 100],
   crs |-> "EPSG:32610"]

raster_asset_id == [dir |-> "LARSE/GEDI/GEDI02_B_002_MONTHLY", base |-> "001"]

\* shot records around the box and around January 2020 on the delta_time scale
January2020 ==
  {gedi_deltatime_epoch(DateTime(2020, 1, 1, 0, 0, 0)) - 1,
   gedi_deltatime_epoch(DateTime(2020, 1, 1, 0, 0, 0)),
   gedi_deltatime_epoch(DateTime(2020, 2, 1, 0, 0, 0))}

\* one pixel of the box with every delta_time and sensitivity, a second
\* pixel of the box, and a place outside the box (the box ends at x = 2600)
ShotRecords ==
  [x : {0}, y : {0}, delta_time : January2020, sensitivity : {7, 9}]
  \cup [x : {30}, y : {0},
        delta_time : {gedi_deltatime_epoch(DateTime(2020, 1, 1, 0, 0, 0))},
        sensitivity : {7, 9}]
  \cup [x : {2601}, y : {0}, delta_time : January2020, sensitivity : {9}]

SeqsUpTo(S, n) == UNION {[1..k -> S] : k \in 0..n}

NoTables == [id \in AssetIds |-> <<>>]

\* the records of two tables, at most max in all
TablePairs(max) ==
  {[NoTables EXCEPT ![IdJan15] = p[1], ![IdJan1] = p[2]] :
     p \in {q \in SeqsUpTo(ShotRecords, max) \X SeqsUpTo(ShotRecords, max) :
              Len(q[1]) + Len(q[2]) <= max}}

LocalUtcOffsets == {0, -28800}

(***************************************************************************)
(* State.                                                                  *)
(***************************************************************************)
VARIABLES
  table_asset_ids,   \* argument of rasterize_gedi_by_utm_zone
  grill_month,       \* argument: the requested month, a datetime
  overwrite,         \* argument
  tables,            \* the engine's table of each asset id
  utcoffset,         \* offset of the host's local time from UTC, seconds
  pc,                \* "called", "raised", "created" or "started"
  error,             \* the exception create_export raised, or "none"
  n_parsed,          \* identifiers handed to parse_date_from_gedi_filename
  month_window,      \* <<month_start, month_end>>, <<>> before line 146
  ee_calls,          \* the engine calls made, in order
  delta_time_range,  \* <<minValue, maxValue>> of the filter, <<>> before line 186
  shots,             \* <<records at line 208>>, <<>> before it
  export_params,     \* <<ExportParameters>>, <<>> before create_export returns
  task               \* <<the export task>>, <<>> before _start_task

vars == <<table_asset_ids, grill_month, overwrite, tables, utcoffset, pc, error,
          n_parsed, month_window, ee_calls, delta_time_range, shots,
          export_params, task>>

inputs == <<table_asset_ids, grill_month, overwrite, tables, utcoffset>>

Init ==
  /\ \/ /\ table_asset_ids \in Manifests(MaxBatches, MaxMinor)
        /\ grill_month \in GateMonths
        /\ overwrite = FALSE
        /\ tables = NoTables
        /\ utcoffset = 0
     \/ /\ table_asset_ids \in {<<>>, <<IdJan15>>}
        /\ grill_month \in AllMonths
        /\ overwrite \in BOOLEAN
        /\ tables = NoTables
        /\ utcoffset \in LocalUtcOffsets
     \/ /\ table_asset_ids = <<IdJan15, IdJan1>>
        /\ grill_month = DateTime(2020, 1, 15, 0, 0, 0)
        /\ overwrite = FALSE
        /\ tables \in TablePairs(MaxShots)
        /\ utcoffset = 0
  /\ pc = "called"
  /\ error = "none"
  /\ n_parsed = 0
  /\ month_window = <<>>
  /\ ee_calls = <<>>
  /\ delta_time_range = <<>>
  /\ shots = <<>>
  /\ export_params = <<>>
  /\ task = <<>>

(***************************************************************************)
(* Operations.                                                             *)
(***************************************************************************)
\* create_export raises (lines 136-159): nothing of the engine is called
CreateExportRaises ==
  \E gate \in {MonthGate(table_asset_ids, grill_month)} :
     /\ pc = "called"
     /\ gate.error # "none"
     /\ pc' = "raised"
     /\ error' = gate.error
     /\ n_parsed' = gate.n_parsed
     /\ month_window' = gate.window
     /\ UNCHANGED <<inputs, ee_calls, delta_time_range, shots, export_params, task>>

\* create_export returns (lines 136-224)
CreateExportReturns ==
  \E gate \in {MonthGate(table_asset_ids, grill_month)} :
     /\ pc = "called"
     /\ gate.error = "none"
     /\ LET month_start == gate.window[1]
            month_end == gate.window[2]
            box == BufferBounds(grid_cell_feature.geometry, BufferDistance)
            range == DeltaTimeRange(month_start, month_end)
            filtered == FilteredShots(table_asset_ids, tables, box, range)
            properties == ImageProperties(table_asset_ids, grill_month,
                                          month_start, month_end, utcoffset)
        IN \E first \in SortOutcomes(filtered, SortAscending) :
             \E sorted \in SortOutcomes(first, SortAscending) :
               /\ shots' = <<sorted>>
               /\ export_params' =
                    <<ExportParameters(sorted, raster_asset_id, grid_cell_feature,
                                       box, properties, overwrite)>>
     /\ pc' = "created"
     /\ delta_time_range' = DeltaTimeRange(gate.window[1], gate.window[2])
     /\ n_parsed' = gate.n_parsed
     /\ month_window' = gate.window
     /\ ee_calls' = EngineCalls(Len(table_asset_ids))
     /\ UNCHANGED <<inputs, error, task>>

create_export == CreateExportRaises \/ CreateExportReturns

\* line 119 is reached when line 117 returned: an exception of create_export
\* leaves rasterize_gedi_by_utm_zone
StartsAfterAnyOutcome == pc \in {"created", "raised"}

CanStartTask == pc = "created"

\* _start_task (lines 227-244)
StartTask ==
  /\ CanStartTask
  /\ task' = <<[description |-> raster_asset_id.base,
                assetId |-> raster_asset_id,
                params |-> export_params,
                scale |-> Scale,
                state |-> "STARTED"]>>
  /\ ee_calls' = ee_calls \o <<"ee.batch.Export.image.toAsset", "start", "status">>
  /\ pc' = "started"
  /\ UNCHANGED <<inputs, error, n_parsed, month_window, delta_time_range, shots,
                 export_params>>

Next == create_export \/ StartTask

Spec == Init /\ [][Next]_vars

(***************************************************************************)
(* Properties.                                                             *)
(***************************************************************************)
Range(seq) == {seq[i] : i \in 1..Len(seq)}

Returned == pc \in {"created", "started"}

Finished == pc # "called"

AllParse ==
  \A i \in 1..Len(table_asset_ids) :
     parse_date_from_gedi_filename(table_asset_ids[i]).err = "none"

DateOf(i) == parse_date_from_gedi_filename(table_asset_ids[i]).dt

\* the batches whose timestamp lies inside [month_start, month_end)
InWindow ==
  {i \in 1..Len(table_asset_ids) :
     /\ DtGeq(DateOf(i), month_window[1])
     /\ DtLess(DateOf(i), month_window[2])}

Validated == Finished /\ table_asset_ids # <<>> /\ AllParse /\ month_window # <<>>

\* C1: for a non-empty list with at least one timestamp inside the window,
\* create_export fails with the insufficient-coverage error exactly when
\* (batches inside the window) / (batches) is below 0.95, counted over the
\* batches; at 95% and above it succeeds.
C1_CoverageThreshold ==
  (Validated /\ InWindow # {}) =>
     LET k == Cardinality(InWindow)
         n == Len(table_asset_ids)
     IN /\ (error = ErrMajority) <=> (20 * k < 19 * n)
        /\ (20 * k >= 19 * n) => (error = "none" /\ Returned)

\* 19 of 20 batches inside the window: exactly 95%, and the call returned
C1_Witness ==
  /\ Validated /\ Returned
  /\ Len(table_asset_ids) = 20
  /\ Cardinality(InWindow) = 19

\* C2: for a non-empty list whose timestamps all lie outside the window,
\* create_export fails with the out-of-range error, never with the
\* insufficient-coverage error.
C2_AllOutsideFirst ==
  (Finished /\ table_asset_ids # <<>> /\ AllParse) =>
     /\ month_window # <<>>
     /\ (InWindow = {}) => (error = ErrAllOutside /\ pc = "raised")

\* a mix of batches before the start and on or after the end
C2_Witness ==
  /\ Validated /\ InWindow = {}
  /\ \E i, k \in 1..Len(table_asset_ids) :
        /\ DtLess(DateOf(i), month_window[1])
        /\ DtGeq(DateOf(k), month_window[2])
  /\ error = ErrAllOutside

\* the box of the grid cell
Box == BufferBounds(grid_cell_feature.geometry, BufferDistance)

\* C3: a record of the unioned tables survives the filter exactly when it
\* lies in the box and epoch(month_start) <= delta_time < epoch(month_end).
C3_HalfOpenFilter ==
  Returned =>
     \A rec \in Range(UnionOfTables(table_asset_ids, tables)) :
        (rec \in Range(shots[1])) <=>
           /\ InBox(rec, Box)
           /\ gedi_deltatime_epoch(month_window[1]) <= rec.delta_time
           /\ rec.delta_time < gedi_deltatime_epoch(month_window[2])

Image == export_params[1].image

\* the surviving records that fall in a pixel
SurvivorsAt(pixel) ==
  {rec \in Range(shots[1]) : PixelOf(rec, Scale) = pixel}

\* C4: the band values of every pixel are those of one surviving record of
\* the pixel whose sensitivity is the highest of the pixel.
C4_FirstWinsHighest ==
  Returned =>
     \A pixel \in DOMAIN Image.data :
        \E rec \in SurvivorsAt(pixel) :
           /\ \A other \in SurvivorsAt(pixel) : other.sensitivity <= rec.sensitivity
           /\ \A i \in 1..Len(Image.bands) :
                 Image.data[pixel][i] = Property(rec, Image.bands[i].name)

\* a 0.7 record ahead of a 0.9 record of the same pixel in the input, and
\* the pixel carries 0.9
C4_Witness ==
  /\ Returned
  /\ LET all == UnionOfTables(table_asset_ids, tables)
     IN \E i, k \in 1..Len(all) :
           /\ i < k
           /\ all[i].sensitivity = 7 /\ all[k].sensitivity = 9
           /\ all[i] \in Range(shots[1]) /\ all[k] \in Range(shots[1])
           /\ PixelOf(all[i], Scale) = PixelOf(all[k], Scale)
           /\ PixelOf(all[i], Scale) \in DOMAIN Image.data
           /\ Image.data[PixelOf(all[i], Scale)][BandIndex(Image, "sensitivity")] = 9

\* C5: with an empty list create_export raises the invalid-argument error
\* before it parses an identifier, computes the window or calls the engine.
C5_EmptyListFirst ==
  (Finished /\ table_asset_ids = <<>>) =>
     /\ pc = "raised" /\ error = ErrNoIds
     /\ n_parsed = 0 /\ month_window = <<>> /\ ee_calls = <<>>
     /\ delta_time_range = <<>> /\ shots = <<>> /\ export_params = <<>>

C5_Witness == pc = "raised" /\ table_asset_ids = <<>> /\ error = ErrNoIds

\* C6: an export is requested and a task started only after create_export
\* returned; after a failure of create_export neither happens.
C6_ExportOnlyAfterCreate ==
  /\ (task # <<>> \/ "ee.batch.Export.image.toAsset" \in Range(ee_calls)) =>
        (error = "none" /\ export_params # <<>>)
  /\ (error # "none") => (task = <<>> /\ ee_calls = <<>> /\ export_params = <<>>)

C6_Witness ==
  /\ pc = "started" /\ task # <<>>
  /\ task[1].params = export_params /\ export_params # <<>>

\* C7: the bands of the exported image are raster_bands, in count and in
\* order; a band is integer-typed exactly when its name is in INTEGER_PROPS
\* and is double-typed otherwise.
C7_CastKeepsBands ==
  Returned =>
     /\ Len(Image.bands) = Len(raster_bands)
     /\ \A i \in 1..Len(Image.bands) :
           /\ Image.bands[i].name = raster_bands[i]
           /\ Image.bands[i].type =
                 (IF raster_bands[i] \in INTEGER_PROPS THEN "int" ELSE "double")
     /\ \A pixel \in DOMAIN Image.data : Len(Image.data[pixel]) = Len(raster_bands)

C7_Witness ==
  /\ Returned
  /\ Image.bands[1].type = "int"
  /\ Image.bands[2].type = "double"
  /\ DOMAIN Image.data # {}

\* C8: the window starts on day 1, ends exactly one calendar month later
\* (December rolls over to January of the next year), is not empty and holds
\* the target date.
C8_MonthWindow ==
  (month_window # <<>>) =>
     LET month_start == month_window[1]
         month_end == month_window[2]
     IN /\ month_start.day = 1
        /\ month_end.day = 1
        /\ month_end.month = (month_start.month % 12) + 1
        /\ month_end.year = month_start.year + (IF month_start.month = 12 THEN 1 ELSE 0)
        /\ SecondOfDay(month_end) = SecondOfDay(month_start)
        /\ DtLess(month_start, month_end)
        /\ DtGeq(grill_month, month_start)
        /\ DtLess(grill_month, month_end)

\* a target date on the last day of December
C8_Witness ==
  /\ month_window # <<>>
  /\ grill_month.month = 12 /\ grill_month.day = 31
  /\ month_window[2].month = 1
  /\ month_window[2].year = grill_month.year + 1

\* C9: whatever the time of day of grill_month, the start of the window used
\* by the validator, the filter and the time_start metadata is day 1 of the
\* month at 00:00:00.
C9_WindowStartsAtMidnight ==
  LET first == DateTime(grill_month.year, grill_month.month, 1, 0, 0, 0)
  IN /\ (month_window # <<>>) => (month_window[1] = first)
     /\ Returned =>
           /\ delta_time_range[1] = gedi_deltatime_epoch(first)
           /\ Image.properties.time_start = timestamp_ms_for_datetime(first, utcoffset)

MonthOf(i) == <<DateOf(i).year, DateOf(i).month>>

BatchesOf(month) == {i \in 1..Len(table_asset_ids) : MonthOf(i) = month}

\* the two calendar months of a manifest split 50/50 across two months
SplitMonths ==
  IF table_asset_ids # <<>> /\ AllParse
  THEN {pair \in {MonthOf(i) : i \in 1..Len(table_asset_ids)}
                 \X {MonthOf(i) : i \in 1..Len(table_asset_ids)} :
          /\ pair[1] # pair[2]
          /\ BatchesOf(pair[1]) \cup BatchesOf(pair[2]) = 1..Len(table_asset_ids)
          /\ Cardinality(BatchesOf(pair[1])) = Cardinality(BatchesOf(pair[2]))}
  ELSE {}

\* C10 as stated: a manifest split 50/50 across two calendar months fails
\* with the insufficient-coverage error for every requested month.
C10_AlwaysInsufficient ==
  (Finished /\ SplitMonths # {}) => (error = ErrMajority)

\* C10 as amended: for a manifest split 50/50 across two calendar months,
\* create_export fails with the insufficient-coverage error whenever the
\* window holds the batches of exactly one of the two months (as for a
\* requested month at 00:00 that is one of the two), and with the
\* out-of-range error whenever the window holds no batch (as for a requested
\* month at 00:00 that is neither).
C10_SplitFails ==
  (Finished /\ SplitMonths # {}) =>
     /\ month_window # <<>>
     /\ (InWindow = {}) => (error = ErrAllOutside)
     /\ (\E pair \in SplitMonths : InWindow = BatchesOf(pair[1])) =>
           (error = ErrMajority)
     /\ (SecondOfDay(grill_month) = 0) =>
           IF \E pair \in SplitMonths : pair[1] = <<grill_month.year, grill_month.month>>
           THEN error = ErrMajority
           ELSE error = ErrAllOutside

C10_Witness ==
  /\ Finished
  /\ <<<<2020, 1>>, <<2020, 2>>>> \in SplitMonths
  /\ grill_month = DateTime(2020, 1, 15, 0, 0, 0)
  /\ error = ErrMajority

=============================================================================
